---------------------------- MODULE Spec2Model ----------------------------
(***************************************************************************)
(* Model of the pomodoro session lifecycle of src/src/lib.rs: the data     *)
(* directory with its state.json and per-session log files, and the        *)
(* operations start_timer, current_status and stop_timer acting on it.     *)
(*                                                                         *)
(* A file's content is a record; its "kind" field stands for the JSON      *)
(* shape of the file ("state": a PomodoroState, "log": a SessionLog,       *)
(* "corrupt": a truncated file), so that reading a file as the wrong type  *)
(* is a serde error, as it is in the code.                                 *)
(***************************************************************************)
EXTENDS Integers, Sequences, FiniteSets, TLC

(***************************************************************************)
(* Bounds of the model.                                                    *)
(***************************************************************************)
\* the clock readings handed to the operations are multiples of TickSecs
TickSecs == 30
MaxTicks == 2
\* at most MaxStarts successful starts in one behaviour
MaxStarts == 2
\* at most MaxPolls status calls that find one session expired
MaxPolls == 2
\* at most MaxRestarts successful starts in a behaviour of SpecRestarts
MaxRestarts == 3
\* at most MaxMarks mark calls in a behaviour of SpecMarks
MaxMarks == 4
\* at most MaxFaults faults in a behaviour of SpecFaults
MaxFaults == 1

Instants == {k * TickSecs : k \in 0 .. MaxTicks}

\* Option<T>
None == [some |-> FALSE]
Some(v) == [some |-> TRUE, val |-> v]

\* notes are strings, kept as sequences of characters: no note, and a note
\* whose file name is that of the state file
NoteValues == {None, Some(<<"s", "t", "a", "t", "e">>)}

\* and a note with a character that sanitize_filename replaces
AllNoteValues == NoteValues \cup {Some(<<"a", " ", "b">>)}

VARIABLES
  dataDir,   \* whether the data directory exists
  files,     \* the files of the data directory: name -> content
  last,      \* the last call: its arguments, its result, what it observed
  starts,    \* the successful starts so far: <<[note, start_unix], ...>>
  polls,     \* of the persisted session: status calls that found it
             \* expired, and writes that set completed=true in its log
  faults,    \* the number of start calls made with a fault to come
  clock,     \* the reading SystemTime::now() gives the process of the loop
  loop       \* the process that runs run_session_loop: where it is, the
             \* PomodoroState it holds, the cancellation flag, its result

vars == <<dataDir, files, last, starts, polls, faults, clock, loop>>

(***************************************************************************)
(* Integer casts.  A u64 is kept as k64 * 2^64 + lo, so that the cast of a *)
(* negative i64 is the value the machine holds.                            *)
(***************************************************************************)
AsU64(i) == IF i >= 0 THEN [k64 |-> 0, lo |-> i] ELSE [k64 |-> 1, lo |-> i]

\* u64::saturating_sub
U64SaturatingSub(a, b) ==
  IF a.k64 = b.k64
    THEN IF a.lo >= b.lo THEN AsU64(a.lo - b.lo) ELSE AsU64(0)
    ELSE IF a.k64 > b.k64 THEN [k64 |-> 1, lo |-> a.lo - b.lo] ELSE AsU64(0)

\* u64 as i64: a value below 2^63 is kept, one from 2^63 on is taken 2^64
\* lower.  Of the u64 values the model holds (lo a model integer) those
\* with k64 = 0 are below 2^63 and those with k64 = 1 are not, so what is
\* left is lo
AsI64(u) == u.lo

U64Max == [k64 |-> 1, lo |-> -1]

\* the minutes start is called with
MinuteValues == {AsU64(0), AsU64(1)}

\* and the largest u64
WideMinuteValues == MinuteValues \cup {U64Max}

\* i64::saturating_sub: saturates at the bounds of i64, which the model's
\* instants never reach
I64SaturatingSub(a, b) == a - b

(***************************************************************************)
(* datetime helpers                                                        *)
(***************************************************************************)
\* SystemTime values are whole seconds since the epoch; one before the
\* epoch converts to 0
system_time_to_unix(t) == IF t >= 0 THEN t ELSE 0

unix_to_system_time(unix) == unix

\* UNIX_EPOCH + Duration::from_secs(unix as u64) panics when the sum
\* overflows SystemTime, as it does for the cast of a negative unix
SystemTimeOverflows(unix) == AsU64(unix).k64 > 0

Digits == <<"0", "1", "2", "3", "4", "5", "6", "7", "8", "9">>
Digit(d) == Digits[d + 1]
Pad2(n) == Digit((n \div 10) % 10) \o Digit(n % 10)
Pad4(n) == Pad2(n \div 100) \o Pad2(n % 100)

\* the civil date of a day count since 1970-01-01, as chrono computes the
\* %Y, %m and %d of a UTC instant; each step hands its result to the next
CivilFromMonth(era, yoe, d, m) ==
  [year |-> yoe + era * 400 + (IF m <= 2 THEN 1 ELSE 0), month |-> m, day |-> d]

CivilFromMp(era, yoe, doy, mp) ==
  CivilFromMonth(era, yoe, doy - (153 * mp + 2) \div 5 + 1,
                 IF mp < 10 THEN mp + 3 ELSE mp - 9)

CivilFromDoy(era, yoe, doy) == CivilFromMp(era, yoe, doy, (5 * doy + 2) \div 153)

CivilFromYoe(era, doe, yoe) ==
  CivilFromDoy(era, yoe, doe - (365 * yoe + yoe \div 4 - yoe \div 100))

CivilFromDoe(era, doe) ==
  CivilFromYoe(era, doe,
               (doe - doe \div 1460 + doe \div 36524 - doe \div 146096) \div 365)

CivilFromEra(z, era) == CivilFromDoe(era, z - era * 146097)

CivilFromDays(days) == CivilFromEra(days + 719468, (days + 719468) \div 146097)

\* c: the civil date, s: the second of the day
FormatCivil(c, s) ==
  Pad4(c.year) \o "-" \o Pad2(c.month) \o "-" \o Pad2(c.day) \o " "
    \o Pad2(s \div 3600) \o ":" \o Pad2((s % 3600) \div 60) \o ":"
    \o Pad2(s % 60) \o " UTC"

\* "%Y-%m-%d %H:%M:%S %Z", rendered in a local zone that is UTC
format_timestamp(time) == FormatCivil(CivilFromDays(time \div 86400), time % 86400)

CompactCivil(c, s) ==
  Pad4(c.year) \o Pad2(c.month) \o Pad2(c.day) \o "T"
    \o Pad2(s \div 3600) \o Pad2((s % 3600) \div 60) \o Pad2(s % 60) \o "Z"

\* "%Y%m%dT%H%M%SZ"
CompactTimestamp(time) == CompactCivil(CivilFromDays(time \div 86400), time % 86400)

(***************************************************************************)
(* Path / filesystem helpers                                               *)
(***************************************************************************)
AlphanumericChars == {"a", "b", "e", "s", "t"}

SanitizeChar(c) ==
  IF c \in AlphanumericChars \/ c = "-" \/ c = "_" \/ c = "." THEN c ELSE "_"

RECURSIVE Collect(_)
Collect(chars) ==
  IF chars = <<>> THEN "" ELSE Head(chars) \o Collect(Tail(chars))

sanitize_filename(s) == Collect([i \in 1 .. Len(s) |-> SanitizeChar(s[i])])

\* a state of the disk: [dir: whether the data directory exists, files]
Disk(dir, fs) == [dir |-> dir, files |-> fs]

ensure_data_dir(d) == Disk(TRUE, d.files)

\* names are relative to the data directory
state_path == "state.json"

Exists(d, path) == path \in DOMAIN d.files

WriteFile(d, path, content) == Disk(d.dir, (path :> content) @@ d.files)

Corrupt == [kind |-> "corrupt"]

\* the empty data directory
NoFiles == [p \in {} |-> Corrupt]

\* the results of the fallible helpers carry err: "none", "Io" or "Serde"
NoErr == "none"

\* lines 125-135: the sanitized note, or the timestamp when there is no
\* usable note
SanitizedOr(sanitized, timestamp) ==
  IF sanitized # "" THEN sanitized ELSE timestamp

LogBaseName(note, timestamp) ==
  IF note.some THEN SanitizedOr(sanitize_filename(note.val), timestamp)
  ELSE timestamp

\* mutant: the candidate is taken whether or not it exists
ResolveCandidate_NoFallback(d, base_name, timestamp) ==
  [err |-> NoErr, disk |-> ensure_data_dir(d), path |-> base_name \o ".json"]

\* lines 136-140
ResolveCandidate(d, base_name, timestamp) ==
  [err |-> NoErr,
   disk |-> ensure_data_dir(d),
   path |-> IF Exists(d, base_name \o ".json")
              THEN base_name \o "-" \o timestamp \o ".json"
              ELSE base_name \o ".json"]

ResolveAt(d, note, timestamp) ==
  ResolveCandidate(d, LogBaseName(note, timestamp), timestamp)

resolve_session_log_path(d, note, start_unix) ==
  ResolveAt(d, note, CompactTimestamp(unix_to_system_time(start_unix)))

(***************************************************************************)
(* log handling                                                            *)
(***************************************************************************)
NewSessionLog(minutes, note, start_time, end_time) ==
  [kind |-> "log",
   minutes |-> minutes,
   note |-> note,
   started_at |-> format_timestamp(start_time),
   ends_at |-> format_timestamp(end_time),
   completed |-> FALSE,
   completed_at |-> None,
   canceled |-> FALSE,
   canceled_at |-> None]

write_session_log(d, path, log) == [err |-> NoErr, disk |-> WriteFile(d, path, log)]

initialize_session_log(d, path, minutes, note, start_time, end_time) ==
  write_session_log(d, path, NewSessionLog(minutes, note, start_time, end_time))

\* File::open fails on a missing file; serde fails on a file that is no
\* SessionLog
read_session_log(d, path) ==
  IF ~Exists(d, path) THEN [err |-> "Io"]
  ELSE IF d.files[path].kind # "log" THEN [err |-> "Serde"]
  ELSE [err |-> NoErr, log |-> d.files[path]]

\* mutant: completed is set and canceled is left as it was
LogMarkedCompleted_KeepsCanceled(log, completed_at) ==
  [log EXCEPT !.completed = TRUE,
              !.completed_at = Some(format_timestamp(completed_at))]

\* lines 182-185
LogMarkedCompleted(log, completed_at) ==
  [log EXCEPT !.completed = TRUE,
              !.completed_at = Some(format_timestamp(completed_at)),
              !.canceled = FALSE,
              !.canceled_at = None]

\* r: what read_session_log returned; wrote: whether the file was written
MarkCompletedRead(d, path, completed_at, r) ==
  IF r.err # NoErr THEN [err |-> r.err, disk |-> d, wrote |-> FALSE]
  ELSE IF r.log.completed THEN [err |-> NoErr, disk |-> d, wrote |-> FALSE]
  ELSE [err |-> NoErr,
        disk |-> write_session_log(d, path,
                   LogMarkedCompleted(r.log, completed_at)).disk,
        wrote |-> TRUE]

mark_log_completed(d, path, completed_at) ==
  MarkCompletedRead(d, path, completed_at, read_session_log(d, path))

\* lines 194-197
LogMarkedCanceled(log, canceled_at) ==
  [log EXCEPT !.canceled = TRUE,
              !.canceled_at = Some(format_timestamp(canceled_at)),
              !.completed = FALSE,
              !.completed_at = None]

MarkCanceledRead(d, path, canceled_at, r) ==
  IF r.err # NoErr THEN [err |-> r.err, disk |-> d, wrote |-> FALSE]
  ELSE IF r.log.canceled THEN [err |-> NoErr, disk |-> d, wrote |-> FALSE]
  ELSE [err |-> NoErr,
        disk |-> write_session_log(d, path,
                   LogMarkedCanceled(r.log, canceled_at)).disk,
        wrote |-> TRUE]

mark_log_canceled(d, path, canceled_at) ==
  MarkCanceledRead(d, path, canceled_at, read_session_log(d, path))

(***************************************************************************)
(* state handling helpers                                                  *)
(***************************************************************************)
PomodoroState(start_unix, end_unix, minutes, note, log_path, completed_logged) ==
  [kind |-> "state",
   start_unix |-> start_unix,
   end_unix |-> end_unix,
   minutes |-> minutes,
   note |-> note,
   log_path |-> log_path,
   completed_logged |-> completed_logged]

\* d: the disk once state_path() has created the data directory
LoadStateIn(d) ==
  IF ~Exists(d, state_path) THEN [err |-> NoErr, disk |-> d, state |-> None]
  ELSE IF d.files[state_path].kind # "state"
    THEN [err |-> "Serde", disk |-> d, state |-> None]
  ELSE [err |-> NoErr, disk |-> d, state |-> Some(d.files[state_path])]

load_state(d) == LoadStateIn(ensure_data_dir(d))

save_state(d, state) ==
  [err |-> NoErr, disk |-> WriteFile(ensure_data_dir(d), state_path, state)]

\* mutant: the file is removed without the check that it exists
remove_state_Unchecked(d) ==
  IF Exists(d, state_path)
    THEN [err |-> NoErr,
          disk |-> Disk(TRUE, [p \in DOMAIN d.files \ {state_path} |-> d.files[p]])]
    ELSE [err |-> "Io", disk |-> ensure_data_dir(d)]

remove_state(d) ==
  [err |-> NoErr,
   disk |-> Disk(TRUE, [p \in DOMAIN d.files \ {state_path} |-> d.files[p]])]

is_complete_at(state, now) == system_time_to_unix(now) >= state.end_unix

\* line 238
Logged(state) == [state EXCEPT !.completed_logged = TRUE]

\* m: what mark_log_completed returned (lines 237-240)
FinalizeMarked(state, m) ==
  IF m.err # NoErr
    THEN [err |-> m.err, disk |-> m.disk, state |-> state,
          value |-> FALSE, wrote |-> FALSE]
    ELSE [err |-> NoErr, disk |-> save_state(m.disk, Logged(state)).disk,
          state |-> Logged(state), value |-> TRUE, wrote |-> m.wrote]

\* mutant: a session already logged is finalized again
finalize_completed_session_Relogs(d, state, now) ==
  IF ~is_complete_at(state, now)
    THEN [err |-> NoErr, disk |-> d, state |-> state, value |-> FALSE, wrote |-> FALSE]
  ELSE FinalizeMarked(state, mark_log_completed(d, state.log_path, now))

\* state: the caller's in-memory PomodoroState after the call; value: the
\* bool returned
finalize_completed_session(d, state, now) ==
  IF state.completed_logged
    THEN [err |-> NoErr, disk |-> d, state |-> state, value |-> FALSE, wrote |-> FALSE]
  ELSE IF ~is_complete_at(state, now)
    THEN [err |-> NoErr, disk |-> d, state |-> state, value |-> FALSE, wrote |-> FALSE]
  ELSE FinalizeMarked(state, mark_log_completed(d, state.log_path, now))

(***************************************************************************)
(* Results.  Ok(v) and Err(e) are Result<T, PomodoroError>; Unit is ().    *)
(***************************************************************************)
Ok(v) == [tag |-> "Ok", value |-> v]
Err(kind) == [tag |-> "Err", kind |-> kind]
ActiveSessionRunning(remaining_secs) ==
  [tag |-> "Err", kind |-> "ActiveSessionRunning", remaining_secs |-> remaining_secs]
Unit == "()"
\* the process panics: the call does not return
Panic == [tag |-> "Panic"]

NoActive == [status |-> "NoActive"]
Running(elapsed_secs, remaining_secs) ==
  [status |-> "Running", elapsed_secs |-> elapsed_secs,
   remaining_secs |-> remaining_secs]
Completed(over_secs, just_logged) ==
  [status |-> "Completed", over_secs |-> over_secs, just_logged |-> just_logged]

\* the content of state.json, if the file exists
Persisted(d) ==
  IF Exists(d, state_path) THEN Some(d.files[state_path]) ELSE None

\* What a call reports besides its result res and the disk it leaves:
\*   prior     the session load_state returned
\*   wrote     whether the call wrote completed=true into a log
\*   mid       (start) state.json when the creation of the new session begins
\*   path      (start) the log path resolved for the new session
\*   clobbered (start) whether the call wrote the new log over a file that
\*             existed at that path
Outcome(res, d, prior, wrote) ==
  [res |-> res, disk |-> d, prior |-> prior, wrote |-> wrote,
   mid |-> None, path |-> None, clobbered |-> FALSE]

(***************************************************************************)
(* start_timer.  The faults are the places where the creation of the new   *)
(* session can fail: "resolve" (the data directory cannot be created),     *)
(* "init_create" (File::create of the log fails), "init_write" (write_all  *)
(* of the log fails, the file having been created empty).                  *)
(***************************************************************************)
Faults == {"none", "resolve", "init_create", "init_write"}

\* mutant: the remaining time is counted from the session's start
RemainingSecs_FromStart(existing, now_unix) ==
  AsU64(existing.end_unix - existing.start_unix)

\* lines 259-263
RemainingSecs(existing, now_unix) ==
  IF existing.end_unix > now_unix
    THEN AsU64(existing.end_unix - now_unix)
    ELSE AsU64(0)

\* mc: what mark_log_canceled returned (line 267)
StartCanceled(ld, fin, mc) ==
  Outcome(IF mc.err # NoErr THEN Err(mc.err) ELSE Ok(Unit), mc.disk, ld.state,
          fin.wrote)

\* lines 257-268; fin: what finalize_completed_session returned
StartFinalized(ld, fin, now, force) ==
  IF fin.err # NoErr
    THEN Outcome(Err(fin.err), fin.disk, ld.state, FALSE)
  ELSE IF system_time_to_unix(now) < fin.state.end_unix /\ ~force
    THEN Outcome(ActiveSessionRunning(
                   RemainingSecs(fin.state, system_time_to_unix(now))),
                 fin.disk, ld.state, fin.wrote)
  ELSE IF system_time_to_unix(now) < fin.state.end_unix /\ force
    THEN StartCanceled(ld, fin,
                       mark_log_canceled(fin.disk, fin.state.log_path, now))
  ELSE Outcome(Ok(Unit), fin.disk, ld.state, fin.wrote)

\* lines 255-256; ld: what load_state returned
StartLoaded(ld, now, force) ==
  IF ld.err # NoErr THEN Outcome(Err(ld.err), ld.disk, None, FALSE)
  ELSE IF ~ld.state.some THEN Outcome(Ok(Unit), ld.disk, None, FALSE)
  ELSE StartFinalized(ld, finalize_completed_session(ld.disk, ld.state.val, now),
                      now, force)

\* lines 255-269: the session found persisted is finalized, and then rejected
\* or canceled while it is still running
StartExisting(d, now, force) == StartLoaded(load_state(d), now, force)

\* line 272
EndUnix(start_unix, minutes) == start_unix + AsI64(minutes) * 60

\* lines 275-286; init: what initialize_session_log returned
StartInitialized(rp, init, state, fault) ==
  IF fault = "init_create" THEN [res |-> Err("Io"), disk |-> rp.disk]
  ELSE IF fault = "init_write"
    THEN [res |-> Err("Io"), disk |-> WriteFile(rp.disk, rp.path, Corrupt)]
  ELSE [res |-> Ok(state), disk |-> save_state(init.disk, state).disk]

\* lines 273-275; rp: what resolve_session_log_path returned
StartResolved(d, rp, now, minutes, note, fault) ==
  IF fault = "resolve"
    THEN [res |-> Err("Io"), disk |-> d, path |-> None, clobbered |-> FALSE]
  ELSE IF SystemTimeOverflows(EndUnix(system_time_to_unix(now), minutes))
    THEN [res |-> Panic, disk |-> rp.disk, path |-> Some(rp.path),
          clobbered |-> FALSE]
    ELSE StartInitialized(
           rp,
           initialize_session_log(
             rp.disk, rp.path, minutes, note, now,
             unix_to_system_time(EndUnix(system_time_to_unix(now), minutes))),
           PomodoroState(system_time_to_unix(now),
                         EndUnix(system_time_to_unix(now), minutes),
                         minutes, note, rp.path, FALSE),
           fault)
         @@ [path |-> Some(rp.path),
             clobbered |-> fault # "init_create" /\ Exists(rp.disk, rp.path)]

\* lines 271-286: the new session's log and state
StartCreate(d, now, minutes, note, fault) ==
  StartResolved(d, resolve_session_log_path(d, note, system_time_to_unix(now)),
                now, minutes, note, fault)

\* ex: the outcome of lines 255-269; cr: of lines 271-286
StartCreated(ex, cr) ==
  [res |-> cr.res, disk |-> cr.disk, prior |-> ex.prior, wrote |-> ex.wrote,
   mid |-> Persisted(ex.disk), path |-> cr.path, clobbered |-> cr.clobbered]

StartAfterExisting(ex, now, minutes, note, fault) ==
  IF ex.res.tag = "Err" THEN [ex EXCEPT !.mid = Persisted(ex.disk)]
  ELSE StartCreated(ex, StartCreate(ex.disk, now, minutes, note, fault))

\* mutant: the duration is checked after the persisted session is handled
start_timer_LateCheck(d, now, minutes, note, force, fault) ==
  IF minutes = AsU64(0)
    THEN [Outcome(Err("InvalidDuration"), StartExisting(d, now, force).disk,
                  None, FALSE)
            EXCEPT !.mid = Persisted(d)]
    ELSE StartAfterExisting(StartExisting(d, now, force), now, minutes, note, fault)

start_timer(d, now, minutes, note, force, fault) ==
  IF minutes = AsU64(0)
    THEN [Outcome(Err("InvalidDuration"), d, None, FALSE) EXCEPT !.mid = Persisted(d)]
    ELSE StartAfterExisting(StartExisting(d, now, force), now, minutes, note, fault)

(***************************************************************************)
(* current_status                                                          *)
(***************************************************************************)
\* lines 341-344
RunningStatus(state, now_unix) ==
  Running(AsU64(I64SaturatingSub(now_unix, state.start_unix)),
          U64SaturatingSub(AsU64(state.end_unix - state.start_unix),
                           AsU64(I64SaturatingSub(now_unix, state.start_unix))))

\* mutant: the session found expired is cleared once it is reported
StatusFinalized_Clears(ld, fin, now) ==
  IF fin.err # NoErr THEN Outcome(Err(fin.err), fin.disk, ld.state, FALSE)
  ELSE Outcome(Ok(Completed(AsU64(system_time_to_unix(now) - fin.state.end_unix),
                            fin.value)),
               remove_state(fin.disk).disk, ld.state, fin.wrote)

\* lines 346-348; fin: what finalize_completed_session returned
StatusFinalized(ld, fin, now) ==
  IF fin.err # NoErr THEN Outcome(Err(fin.err), fin.disk, ld.state, FALSE)
  ELSE Outcome(Ok(Completed(AsU64(system_time_to_unix(now) - fin.state.end_unix),
                            fin.value)),
               fin.disk, ld.state, fin.wrote)

StatusLoaded(ld, now) ==
  IF ld.err # NoErr THEN Outcome(Err(ld.err), ld.disk, None, FALSE)
  ELSE IF ~ld.state.some THEN Outcome(Ok(NoActive), ld.disk, None, FALSE)
  ELSE IF system_time_to_unix(now) < ld.state.val.end_unix
    THEN Outcome(Ok(RunningStatus(ld.state.val, system_time_to_unix(now))),
                 ld.disk, ld.state, FALSE)
  ELSE StatusFinalized(ld, finalize_completed_session(ld.disk, ld.state.val, now),
                       now)

current_status(d, now) == StatusLoaded(load_state(d), now)

(***************************************************************************)
(* stop_timer; now is the reading of SystemTime::now() it takes            *)
(***************************************************************************)
\* line 361; rm: what remove_state returned
StopResult(ld, rm, wrote) ==
  Outcome(IF rm.err # NoErr THEN Err(rm.err) ELSE Ok(Unit), rm.disk, ld.state, wrote)

\* lines 356-361; r: what the finalize or the cancel returned
StopRemoved(ld, r, wrote) ==
  IF r.err # NoErr THEN Outcome(Err(r.err), r.disk, ld.state, FALSE)
  ELSE StopResult(ld, remove_state(r.disk), wrote)

StopFinalized(ld, fin) == StopRemoved(ld, fin, fin.err = NoErr /\ fin.wrote)

\* mutant: a session is canceled whether or not it has expired
StopLoaded_AlwaysCancels(ld, now) ==
  IF ld.err # NoErr THEN Outcome(Err(ld.err), ld.disk, None, FALSE)
  ELSE IF ~ld.state.some
    THEN StopResult(ld, remove_state(ld.disk), FALSE)
  ELSE StopRemoved(ld, mark_log_canceled(ld.disk, ld.state.val.log_path, now),
                   FALSE)

StopLoaded(ld, now) ==
  IF ld.err # NoErr THEN Outcome(Err(ld.err), ld.disk, None, FALSE)
  ELSE IF ~ld.state.some
    THEN StopResult(ld, remove_state(ld.disk), FALSE)
  ELSE IF is_complete_at(ld.state.val, now)
    THEN StopFinalized(ld, finalize_completed_session(ld.disk, ld.state.val, now))
  ELSE StopRemoved(ld, mark_log_canceled(ld.disk, ld.state.val.log_path, now),
                   FALSE)

stop_timer(d, now) == StopLoaded(load_state(d), now)

(***************************************************************************)
(* run_session_loop, one iteration: state is the PomodoroState the loop    *)
(* holds, now its reading of the clock, cancel what should_cancel()        *)
(* returns.  The result carries done (whether the loop returns) and the    *)
(* state the loop holds afterwards.                                        *)
(***************************************************************************)
SessionCompleted == "Completed"
SessionCanceled == "Canceled"

\* the iteration prints the remaining time and sleeps
Sleeping(remaining_secs) == [tag |-> "Sleep", remaining_secs |-> remaining_secs]

LoopReturn(res, d, state, wrote) ==
  Outcome(res, d, Some(state), wrote) @@ [done |-> TRUE, state |-> state]

\* lines 312-313 and 321-322; rm: what remove_state returned
LoopRemoved(rm, state, wrote, outcome) ==
  LoopReturn(IF rm.err # NoErr THEN Err(rm.err) ELSE Ok(outcome), rm.disk, state,
             wrote)

\* lines 311-313; mc: what mark_log_canceled returned
LoopCanceled(mc, state) ==
  IF mc.err # NoErr THEN LoopReturn(Err(mc.err), mc.disk, state, FALSE)
  ELSE LoopRemoved(remove_state(mc.disk), state, FALSE, SessionCanceled)

\* lines 317-322; fin: what finalize_completed_session returned
LoopFinalized(fin) ==
  IF fin.err # NoErr THEN LoopReturn(Err(fin.err), fin.disk, fin.state, FALSE)
  ELSE LoopRemoved(remove_state(fin.disk), fin.state, fin.wrote, SessionCompleted)

\* lines 325-330
LoopSleeps(d, state, now_unix) ==
  Outcome(Sleeping(AsU64(state.end_unix - now_unix)), d, Some(state), FALSE)
    @@ [done |-> FALSE, state |-> state]

\* lines 297-331
LoopIteration(d, state, now, cancel) ==
  IF cancel
    THEN LoopCanceled(mark_log_canceled(d, state.log_path, now), state)
  ELSE IF system_time_to_unix(now) >= state.end_unix
    THEN LoopFinalized(finalize_completed_session(d, state, now))
  ELSE LoopSleeps(d, state, system_time_to_unix(now))

(***************************************************************************)
(* The state machine: the calls a user of the library makes, one at a      *)
(* time, on the data directory.                                            *)
(***************************************************************************)
\* the record of a call: its arguments and its outcome but the disk
Call(op, now, minutes, note, force, fault, r) ==
  [op |-> op, now |-> now, minutes |-> minutes, note |-> note, force |-> force,
   fault |-> fault, res |-> r.res, prior |-> r.prior, wrote |-> r.wrote,
   mid |-> r.mid, path |-> r.path, clobbered |-> r.clobbered]

NoCall ==
  Call("none", 0, AsU64(0), None, FALSE, "none", Outcome(Ok(Unit), NoFiles, None, FALSE))

NoPolls == [n |-> 0, writes |-> 0]

\* no process is in run_session_loop
NoLoop == [pc |-> "idle", state |-> None, cancel |-> FALSE]

Wrote(r) == IF r.wrote THEN 1 ELSE 0

Init ==
  /\ dataDir = FALSE
  /\ files = NoFiles
  /\ last = NoCall
  /\ starts = <<>>
  /\ polls = NoPolls
  /\ faults = 0
  /\ clock = 0
  /\ loop = NoLoop

\* the effect of a start_timer call whose outcome is r
Started(now, minutes, note, force, fault, r) ==
  /\ dataDir' = r.disk.dir
  /\ files' = r.disk.files
  /\ last' = Call("start", now, minutes, note, force, fault, r)
  /\ starts' = IF r.res.tag = "Ok"
                 THEN Append(starts, [note |-> note,
                                      start_unix |-> r.res.value.start_unix])
                 ELSE starts
  /\ polls' = IF r.res.tag = "Ok" THEN NoPolls
              ELSE [polls EXCEPT !.writes = @ + Wrote(r)]
  /\ faults' = faults + (IF fault # "none" THEN 1 ELSE 0)

Start(now, minutes, note, force, fault) ==
  \E r \in {start_timer(Disk(dataDir, files), now, minutes, note, force, fault)} :
    /\ Started(now, minutes, note, force, fault, r)
    /\ UNCHANGED <<clock, loop>>

\* whether a status call at now finds a persisted session expired
FindsExpired(now) ==
  /\ state_path \in DOMAIN files
  /\ files[state_path].kind = "state"
  /\ system_time_to_unix(now) >= files[state_path].end_unix

\* state.json holds a PomodoroState that has not expired at instant now
RunningAt(now) ==
  /\ state_path \in DOMAIN files
  /\ files[state_path].kind = "state"
  /\ system_time_to_unix(now) < files[state_path].end_unix

Status(now) ==
  /\ FindsExpired(now) => polls.n < MaxPolls
  /\ \E r \in {current_status(Disk(dataDir, files), now)} :
       /\ dataDir' = r.disk.dir
       /\ files' = r.disk.files
       /\ last' = Call("status", now, AsU64(0), None, FALSE, "none", r)
       /\ polls' = [n |-> polls.n + (IF FindsExpired(now) THEN 1 ELSE 0),
                    writes |-> polls.writes + Wrote(r)]
       /\ UNCHANGED <<starts, faults, clock, loop>>

Stop(now) ==
  \E r \in {stop_timer(Disk(dataDir, files), now)} :
    /\ dataDir' = r.disk.dir
    /\ files' = r.disk.files
    /\ last' = Call("stop", now, AsU64(0), None, FALSE, "none", r)
    /\ polls' = IF r.res.tag = "Ok" THEN NoPolls
                ELSE [polls EXCEPT !.writes = @ + Wrote(r)]
    /\ UNCHANGED <<starts, faults, clock, loop>>

Next ==
  \/ /\ Len(starts) < MaxStarts
     /\ \E now \in Instants, minutes \in MinuteValues, note \in NoteValues,
           force \in BOOLEAN : Start(now, minutes, note, force, "none")
  \/ \E now \in Instants : Status(now)
  \/ \E now \in Instants : Stop(now)

Spec == Init /\ [][Next]_vars

(***************************************************************************)
(* SpecRestarts: start_timer called again and again, with or without       *)
(* force, and nothing else.                                                *)
(***************************************************************************)
NextRestarts ==
  /\ Len(starts) < MaxRestarts
  /\ \E now \in Instants, minutes \in MinuteValues, note \in AllNoteValues,
        force \in BOOLEAN : Start(now, minutes, note, force, "none")

SpecRestarts == Init /\ [][NextRestarts]_vars

(***************************************************************************)
(* SpecFaults: as Spec, and the creation of a new session can fail at any  *)
(* of the Faults.                                                          *)
(***************************************************************************)
NextFaults ==
  \/ /\ Len(starts) < MaxStarts
     /\ \E now \in Instants, minutes \in MinuteValues, note \in NoteValues,
           force \in BOOLEAN,
           fault \in IF faults < MaxFaults THEN Faults ELSE {"none"} :
          Start(now, minutes, note, force, fault)
  \/ \E now \in Instants : Status(now)
  \/ \E now \in Instants : Stop(now)

SpecFaults == Init /\ [][NextFaults]_vars

(***************************************************************************)
(* SpecMinutes: as Spec with sessions that have no note, and start called  *)
(* with any of the WideMinuteValues.                                       *)
(***************************************************************************)
NextMinutes ==
  \/ /\ Len(starts) < MaxStarts
     /\ \E now \in Instants, minutes \in WideMinuteValues, force \in BOOLEAN :
          Start(now, minutes, None, force, "none")
  \/ \E now \in Instants : Status(now)
  \/ \E now \in Instants : Stop(now)

SpecMinutes == Init /\ [][NextMinutes]_vars

(***************************************************************************)
(* SpecRun: the program of main.rs run from one terminal, one process at a *)
(* time.  "start" calls start_timer and then run_session_loop on the       *)
(* session returned; Ctrl+C sets the flag that should_cancel reads; every  *)
(* call takes the reading of the clock, which advances.                    *)
(***************************************************************************)
\* the process is in run_session_loop with the session start_timer returned
LoopOn(state) == [pc |-> "running", state |-> Some(state), cancel |-> FALSE]

\* main.rs lines 50-76
StartCmd(minutes, note, force) ==
  /\ loop.pc # "running"
  /\ Len(starts) < MaxStarts
  /\ \E r \in {start_timer(Disk(dataDir, files), clock, minutes, note, force,
                            "none")} :
       /\ Started(clock, minutes, note, force, "none", r)
       /\ loop' = IF r.res.tag = "Ok" THEN LoopOn(r.res.value) ELSE NoLoop
       /\ UNCHANGED clock

\* main.rs lines 70-72: the handler of Ctrl+C
CtrlC ==
  /\ loop.pc = "running"
  /\ ~loop.cancel
  /\ loop' = [loop EXCEPT !.cancel = TRUE]
  /\ UNCHANGED <<dataDir, files, last, starts, polls, faults, clock>>

\* one iteration of run_session_loop
LoopIter ==
  /\ loop.pc = "running"
  /\ \E r \in {LoopIteration(Disk(dataDir, files), loop.state.val, clock,
                              loop.cancel)} :
       /\ dataDir' = r.disk.dir
       /\ files' = r.disk.files
       /\ last' = Call("run_loop", clock, AsU64(0), None, FALSE, "none", r)
       /\ loop' = [pc |-> IF r.done THEN "returned" ELSE "running",
                   state |-> Some(r.state), cancel |-> loop.cancel]
       /\ polls' = [polls EXCEPT !.writes = @ + Wrote(r)]
       /\ UNCHANGED <<starts, faults, clock>>

\* time passes
Tick ==
  /\ clock < MaxTicks * TickSecs
  /\ clock' = clock + TickSecs
  /\ UNCHANGED <<dataDir, files, last, starts, polls, faults, loop>>

NextRun ==
  \/ \E minutes \in MinuteValues, note \in NoteValues, force \in BOOLEAN :
       StartCmd(minutes, note, force)
  \/ CtrlC
  \/ LoopIter
  \/ Tick

\* the loop does not stop iterating and the clock does not stop
SpecRun == Init /\ [][NextRun]_vars /\ WF_vars(LoopIter) /\ WF_vars(Tick)

(***************************************************************************)
(* SpecShared: as SpecRun, and start, status and stop are called from      *)
(* other terminals on the same data directory while the loop runs.         *)
(***************************************************************************)
NextShared ==
  \/ NextRun
  \/ /\ Len(starts) < MaxStarts
     /\ \E minutes \in MinuteValues, note \in NoteValues, force \in BOOLEAN :
          Start(clock, minutes, note, force, "none")
  \/ Status(clock)
  \/ Stop(clock)

SpecShared == Init /\ [][NextShared]_vars /\ WF_vars(LoopIter) /\ WF_vars(Tick)

(***************************************************************************)
(* SpecFinalize: as Spec, and finalize_completed_session called on its own *)
(* with the persisted session, as loaded or with completed_logged set.     *)
(***************************************************************************)
Finalize(session, now) ==
  \E r \in {finalize_completed_session(Disk(dataDir, files), session, now)} :
    /\ dataDir' = r.disk.dir
    /\ files' = r.disk.files
    /\ last' = Call("finalize", now, AsU64(0), None, FALSE, "none",
                    Outcome(IF r.err # NoErr THEN Err(r.err) ELSE Ok(r.value),
                            r.disk, Some(session), r.wrote))
    /\ polls' = [polls EXCEPT !.writes = @ + Wrote(r)]
    /\ UNCHANGED <<starts, faults, clock, loop>>

NextFinalize ==
  \/ Next
  \/ /\ Persisted(Disk(dataDir, files)).some
     /\ files[state_path].kind = "state"
     /\ \E session \in {files[state_path], Logged(files[state_path])},
           now \in Instants : Finalize(session, now)

SpecFinalize == Init /\ [][NextFinalize]_vars

(***************************************************************************)
(* SpecCrash: start, status and stop called one after the other as the     *)
(* clock advances, and a process can stop between its write of a session   *)
(* log and the write or removal of state.json that follows.  faults counts *)
(* the crashes.                                                            *)
(***************************************************************************)
Crashed == [tag |-> "Crash"]

\* the effect of a call that stops after its mark call returned m
CrashedAfter(now, session, m) ==
  /\ faults < MaxFaults
  /\ m.err = NoErr
  /\ m.wrote
  /\ dataDir' = m.disk.dir
  /\ files' = m.disk.files
  /\ last' = Call("crash", now, AsU64(0), None, FALSE, "none",
                  Outcome(Crashed, m.disk, Some(session), FALSE))
  /\ faults' = faults + 1
  /\ UNCHANGED <<starts, polls, clock, loop>>

\* lines 237-239: after mark_log_completed, before save_state
CrashInFinalize(now) ==
  /\ FindsExpired(now)
  /\ ~files[state_path].completed_logged
  /\ \E m \in {mark_log_completed(load_state(Disk(dataDir, files)).disk,
                                   files[state_path].log_path, now)} :
       CrashedAfter(now, files[state_path], m)

\* lines 358-361 (and 267-285, 311-312): after mark_log_canceled, before
\* state.json is removed or replaced
CrashInCancel(now) ==
  /\ RunningAt(now)
  /\ \E m \in {mark_log_canceled(load_state(Disk(dataDir, files)).disk,
                                  files[state_path].log_path, now)} :
       CrashedAfter(now, files[state_path], m)

NextCrash ==
  \/ /\ Len(starts) < MaxStarts
     /\ \E minutes \in MinuteValues, note \in NoteValues, force \in BOOLEAN :
          Start(clock, minutes, note, force, "none")
  \/ Status(clock)
  \/ Stop(clock)
  \/ CrashInFinalize(clock)
  \/ CrashInCancel(clock)
  \/ Tick

SpecCrash == Init /\ [][NextCrash]_vars

(***************************************************************************)
(* SpecMarks: one freshly initialized session log, and mark_log_completed  *)
(* and mark_log_canceled called on it in any order.  polls.n counts the    *)
(* calls, polls.writes those that wrote completed=true.                    *)
(***************************************************************************)
LogPathOf(note, now) ==
  resolve_session_log_path(Disk(TRUE, NoFiles), note, system_time_to_unix(now)).path

InitMarks ==
  \E now \in Instants, minutes \in MinuteValues \ {AsU64(0)}, note \in AllNoteValues :
    /\ dataDir = TRUE
    /\ files = initialize_session_log(
                 Disk(TRUE, NoFiles), LogPathOf(note, now), minutes, note, now,
                 unix_to_system_time(EndUnix(system_time_to_unix(now), minutes))
               ).disk.files
    /\ last = NoCall
    /\ starts = <<>>
    /\ polls = NoPolls
    /\ faults = 0
    /\ clock = 0
    /\ loop = NoLoop

\* the effect of a mark call at time at that returned m
Marked(op, at, m) ==
  /\ polls.n < MaxMarks
  /\ m.err = NoErr
  /\ files' = m.disk.files
  /\ last' = [Call(op, at, AsU64(0), None, FALSE, "none",
                   Outcome(Ok(Unit), m.disk, None, FALSE))
                EXCEPT !.wrote = m.wrote]
  /\ polls' = [n |-> polls.n + 1,
               writes |-> polls.writes + (IF op = "mark_completed" THEN Wrote(m) ELSE 0)]
  /\ UNCHANGED <<dataDir, starts, faults, clock, loop>>

MarkCompleted(path, at) ==
  \E m \in {mark_log_completed(Disk(dataDir, files), path, at)} :
    Marked("mark_completed", at, m)

MarkCanceled(path, at) ==
  \E m \in {mark_log_canceled(Disk(dataDir, files), path, at)} :
    Marked("mark_canceled", at, m)

NextMarks ==
  \/ \E path \in DOMAIN files, at \in Instants : MarkCompleted(path, at)
  \/ \E path \in DOMAIN files, at \in Instants : MarkCanceled(path, at)

SpecMarks == InitMarks /\ [][NextMarks]_vars

(***************************************************************************)
(* The claims.                                                             *)
(***************************************************************************)
\* the last call was a status call that found the persisted session expired
ExpiredPoll ==
  /\ last.op = "status"
  /\ last.prior.some
  /\ system_time_to_unix(last.now) >= last.prior.val.end_unix

\* C1: once status has been called with now >= end_unix on a started
\* session, however often, its log has been written with completed=true
\* exactly once, and the call reported Completed with just_logged true if it
\* was the first such call and false if it was a later one.
C1_CompletedLoggedOnce ==
  /\ polls.n >= 1 => polls.writes = 1
  /\ ExpiredPoll =>
       /\ last.res.tag = "Ok"
       /\ last.res.value.status = "Completed"
       /\ last.res.value.just_logged = (polls.n = 1)

\* the session logs on the disk
LogFiles == {p \in DOMAIN files : files[p].kind = "log"}

\* C2: in every session log, after any sequence of mark_log_completed and
\* mark_log_canceled calls on a freshly initialized log, at most one of
\* completed and canceled is true, and completed_at (canceled_at) is set if
\* and only if completed (canceled) is true.
C2_TerminalFlagsExclusive ==
  \A p \in LogFiles :
    /\ ~(files[p].completed /\ files[p].canceled)
    /\ files[p].completed_at.some <=> files[p].completed
    /\ files[p].canceled_at.some <=> files[p].canceled

\* a log that was written completed is written canceled by a later call
C2_Witness ==
  /\ last.op = "mark_canceled"
  /\ last.wrote
  /\ polls.writes >= 1
  /\ \E p \in LogFiles : files[p].canceled /\ ~files[p].completed

\* C3: a start with minutes > 0 and without force, called while the
\* persisted session has now < end_unix, fails with ActiveSessionRunning
\* whose remaining_secs is end_unix - now, which is not negative, and leaves
\* state.json and every session log as they were.
C3_RunningRejected ==
  [][(last'.op = "start" /\ last'.minutes # AsU64(0) /\ ~last'.force /\ RunningAt(last'.now))
       => /\ last'.res = ActiveSessionRunning(
                           AsU64(files[state_path].end_unix
                                   - system_time_to_unix(last'.now)))
          /\ last'.res.remaining_secs.k64 = 0
          /\ last'.res.remaining_secs.lo >= 0
          /\ files' = files]_vars

\* a start is rejected some seconds after the running session began
C3_Witness ==
  /\ last.op = "start"
  /\ last.res.tag = "Err"
  /\ last.res.kind = "ActiveSessionRunning"
  /\ last.prior.some
  /\ last.prior.val.start_unix < system_time_to_unix(last.now)
  /\ last.res.remaining_secs = AsU64(TickSecs)

\* the last call was a forced start that succeeded while the session it
\* found had not expired
ForcedOverRunning ==
  /\ last.op = "start"
  /\ last.force
  /\ last.res.tag = "Ok"
  /\ last.prior.some
  /\ system_time_to_unix(last.now) < last.prior.val.end_unix

\* C4: after a forced start that succeeds while the prior session is
\* unexpired, the prior session's log has canceled=true and completed=false,
\* and state.json holds the new session: start_unix = now, end_unix = now +
\* minutes*60, the new note, completed_logged = false.
C4_ForcedStartCancelsPrior ==
  ForcedOverRunning =>
    /\ last.prior.val.log_path \in LogFiles
    /\ files[last.prior.val.log_path].canceled
    /\ ~files[last.prior.val.log_path].completed
    /\ files[state_path] = last.res.value
    /\ files[state_path].start_unix = system_time_to_unix(last.now)
    /\ files[state_path].end_unix = system_time_to_unix(last.now) + last.minutes.lo * 60
    /\ files[state_path].note = last.note
    /\ ~files[state_path].completed_logged

\* every start so far had the same note, at pairwise different start times
SameNoteDifferentTimes ==
  /\ \A i, j \in 1 .. Len(starts) : starts[i].note = starts[j].note
  /\ \A i, j \in 1 .. Len(starts) :
       i # j => starts[i].start_unix # starts[j].start_unix

\* C5: when sessions are started repeatedly with the same note at pairwise
\* different start times, each start resolves a log path at which no file
\* exists, so it writes its log over no earlier one.
C5_SameNoteDistinctPaths ==
  (last.op = "start" /\ last.res.tag = "Ok" /\ SameNoteDifferentTimes)
    => /\ ~last.clobbered
       /\ last.res.value.log_path = last.path.val

\* a third session with the same note, whose path carries the timestamp
C5_Witness ==
  /\ last.op = "start"
  /\ last.res.tag = "Ok"
  /\ SameNoteDifferentTimes
  /\ Len(starts) = 3
  /\ ~last.clobbered
  /\ Cardinality(LogFiles) = 3
  /\ last.path.val # LogBaseName(last.note, CompactTimestamp(last.now)) \o ".json"

Max(a, b) == IF a >= b THEN a ELSE b

\* C6: status(now) with now < end_unix, before start_unix included, reports
\* Running with elapsed = max(0, now - start_unix) and remaining =
\* max(0, (end_unix - start_unix) - elapsed).
C6_RunningElapsedRemaining ==
  (/\ last.op = "status"
   /\ last.prior.some
   /\ system_time_to_unix(last.now) < last.prior.val.end_unix)
    => last.res =
         Ok(Running(
              AsU64(Max(0, system_time_to_unix(last.now) - last.prior.val.start_unix)),
              AsU64(Max(0, (last.prior.val.end_unix - last.prior.val.start_unix)
                            - Max(0, system_time_to_unix(last.now)
                                       - last.prior.val.start_unix)))))

\* the last call was a stop that found a persisted session and succeeded
StoppedSession == last.op = "stop" /\ last.res.tag = "Ok" /\ last.prior.some

C8_StopWithoutSession ==
  [][(last'.op = "stop" /\ state_path \notin DOMAIN files)
       => /\ last'.res = Ok(Unit)
          /\ files' = files]_vars

\* stop is called with session logs on the disk and no state.json
C8_Witness ==
  /\ last.op = "stop"
  /\ ~last.prior.some
  /\ last.res = Ok(Unit)
  /\ LogFiles # {}
  /\ state_path \notin DOMAIN files

\* C9: start with minutes = 0 fails with InvalidDuration whatever now, note,
\* force and the disk are, and leaves the disk as it was: the persisted
\* session is neither finalized nor canceled.
C9_ZeroMinutesRejected ==
  [][(last'.op = "start" /\ last'.minutes = AsU64(0))
       => /\ last'.res = Err("InvalidDuration")
          /\ files' = files
          /\ dataDir' = dataDir]_vars

\* a forced start with 0 minutes finds an expired session not yet logged
C9_Witness ==
  /\ last.op = "start"
  /\ last.minutes = AsU64(0)
  /\ last.force
  /\ last.res = Err("InvalidDuration")
  /\ state_path \in DOMAIN files
  /\ files[state_path].kind = "state"
  /\ ~files[state_path].completed_logged
  /\ system_time_to_unix(last.now) >= files[state_path].end_unix

\* C10: when the resolution of the log path or the initialization of the log
\* fails during start, state.json after the call is what it was when the
\* creation of the new session began.
C10_FailedStartSavesNothing ==
  (last.op = "start" /\ last.fault # "none" /\ last.res = Err("Io"))
    => Persisted(Disk(dataDir, files)) = last.mid

\* the integer i, and the product of a u64 and a small factor, as numbers
\* k64 * 2^64 + lo
Wide(i) == [k64 |-> 0, lo |-> i]
U64Times(u, n) == [k64 |-> u.k64 * n, lo |-> u.lo * n]

\* C11: the session that a successful start(now, minutes, ...) returns is
\* the one it persisted, and has end_unix = start_unix + minutes*60 and
\* end_unix > start_unix, for every minutes > 0 of the u64 range.
C11_EndAfterStart ==
  (last.op = "start" /\ last.res.tag = "Ok")
    => /\ Persisted(Disk(dataDir, files)) = Some(last.res.value)
       /\ Wide(last.res.value.end_unix - last.res.value.start_unix)
            = U64Times(last.minutes, 60)
       /\ last.res.value.end_unix > last.res.value.start_unix

\* the loop has returned Completed, the log of its session has
\* completed=true and canceled=false, and there is no state.json
ReturnedCompleted ==
  /\ loop.pc = "returned"
  /\ last.op = "run_loop"
  /\ last.res = Ok(SessionCompleted)
  /\ loop.state.val.log_path \in LogFiles
  /\ files[loop.state.val.log_path].completed
  /\ ~files[loop.state.val.log_path].canceled
  /\ state_path \notin DOMAIN files

\* C12: when the clock has reached end_unix while run_session_loop runs and
\* the cancellation is not signaled, the loop returns Completed, with the
\* session's log completed=true and canceled=false and no state.json left.
C12_LoopCompletes ==
  (loop.pc = "running" /\ clock >= loop.state.val.end_unix)
    ~> (loop.cancel \/ ReturnedCompleted)

\* C13: an iteration of run_session_loop that finds the cancellation
\* signaled returns Canceled, whether or not the clock has reached end_unix,
\* and leaves the session's log canceled=true and completed=false and no
\* state.json.
C13_CancelObserved ==
  [][(loop.pc = "running" /\ loop.cancel /\ last'.op = "run_loop"
        /\ clock' = clock)
       => /\ loop'.pc = "returned"
          /\ last'.res = Ok(SessionCanceled)
          /\ loop.state.val.log_path \in DOMAIN files'
          /\ files'[loop.state.val.log_path].kind = "log"
          /\ files'[loop.state.val.log_path].canceled
          /\ ~files'[loop.state.val.log_path].completed
          /\ state_path \notin DOMAIN files']_vars

\* C14: no step of start, status, stop or run_session_loop turns a session
\* log that has completed=true into one that has canceled=true, nor one that
\* has canceled=true into one that has completed=true.
C14_TerminalFlagKept ==
  [][\A p \in LogFiles :
       (p \in DOMAIN files' /\ files'[p].kind = "log")
         => /\ files[p].completed => ~files'[p].canceled
            /\ files[p].canceled => ~files'[p].completed]_vars

\* C15: finalize_completed_session called on a session that has
\* completed_logged = true, or at a time before its end_unix, returns false
\* and leaves every file of the data directory, the session's log and
\* state.json among them, as it was.
C15_FinalizeNoOp ==
  [][(/\ last'.op = "finalize"
      /\ \/ last'.prior.val.completed_logged
         \/ system_time_to_unix(last'.now) < last'.prior.val.end_unix)
       => /\ last'.res = Ok(FALSE)
          /\ files' = files
          /\ dataDir' = dataDir]_vars

\* finalize is called after the expiry on the persisted session that status
\* has logged
C15_Witness ==
  /\ last.op = "finalize"
  /\ last.res = Ok(FALSE)
  /\ last.prior = Persisted(Disk(dataDir, files))
  /\ last.prior.val.completed_logged
  /\ system_time_to_unix(last.now) >= last.prior.val.end_unix
  /\ last.prior.val.log_path \in LogFiles
  /\ files[last.prior.val.log_path].completed

\* C16: whenever state.json holds a session with completed_logged = true,
\* the session log it points to has completed = true and canceled = false.
C16_LoggedMeansCompleted ==
  (/\ Persisted(Disk(dataDir, files)).some
   /\ files[state_path].kind = "state"
   /\ files[state_path].completed_logged)
    => /\ files[state_path].log_path \in LogFiles
       /\ files[files[state_path].log_path].completed
       /\ ~files[files[state_path].log_path].canceled

\* C17: when a process has stopped between its write of a session log and
\* the write or removal of state.json that follows, the next status, start
\* or stop call leaves the terminal outcome of that log (completed,
\* completed_at, canceled, canceled_at) as it was recorded, and if state.json
\* still holds the session, its completed_logged agrees with the log.
C17_CrashRecovery ==
  [][(last.op = "crash" /\ last'.op \in {"status", "start", "stop"})
       => /\ last.prior.val.log_path \in DOMAIN files'
          /\ files'[last.prior.val.log_path] = files[last.prior.val.log_path]
          /\ Persisted(Disk(dataDir', files')) = Some(Logged(last.prior.val))
               => files'[last.prior.val.log_path].completed
          /\ Persisted(Disk(dataDir', files')) = last.prior
               => ~files'[last.prior.val.log_path].completed]_vars

\* the last call was a start with minutes > 0 that found the persisted
\* session expired
StartOverExpired ==
  /\ last.op = "start"
  /\ last.minutes # AsU64(0)
  /\ last.prior.some
  /\ system_time_to_unix(last.now) >= last.prior.val.end_unix

\* C18: a start with minutes > 0 that finds the persisted session expired
\* succeeds, with or without force, leaves that session's log with
\* completed=true and canceled=false, and leaves state.json holding the new
\* session.
C18_StartOverExpired ==
  StartOverExpired =>
    /\ last.res.tag = "Ok"
    /\ last.prior.val.log_path \in LogFiles
    /\ files[last.prior.val.log_path].completed
    /\ ~files[last.prior.val.log_path].canceled
    /\ Persisted(Disk(dataDir, files)) = Some(last.res.value)
    /\ last.res.value.start_unix = system_time_to_unix(last.now)
    /\ ~last.res.value.completed_logged

\* the status reported by a call that performed no finalization
NotJustLogged(res) ==
  /\ res.tag = "Ok"
  /\ \/ res.value.status \in {"NoActive", "Running"}
     \/ res.value.status = "Completed" /\ ~res.value.just_logged

\* C19: a status call that reports NoActive, Running, or Completed with
\* just_logged=false leaves state.json and every session log as they were,
\* and no status call removes state.json.
C19_StatusReadOnly ==
  [][last'.op = "status"
       => /\ NotJustLogged(last'.res) => files' = files
          /\ state_path \in DOMAIN files => state_path \in DOMAIN files']_vars

\* status is called again on a session it has logged completed
C19_Witness ==
  /\ last.op = "status"
  /\ last.res.tag = "Ok"
  /\ last.res.value.status = "Completed"
  /\ ~last.res.value.just_logged
  /\ polls.n >= 2
  /\ Persisted(Disk(dataDir, files)) = last.prior
  /\ last.prior.val.completed_logged

\* a and b are the PomodoroState of one session
SameSession(a, b) ==
  [a EXCEPT !.completed_logged = FALSE] = [b EXCEPT !.completed_logged = FALSE]

\* the session logs other than the one state.json points to
EndedLogs(fs) ==
  {p \in DOMAIN fs :
     /\ fs[p].kind = "log"
     /\ ~(/\ state_path \in DOMAIN fs
          /\ fs[state_path].kind = "state"
          /\ fs[state_path].log_path = p)}

\* C20: when run_session_loop returns while state.json holds a session other
\* than the loop's own, started from another terminal in the meantime, it
\* leaves state.json as it is, and every session log other than the
\* persisted session's has exactly one of completed and canceled true.
C20_LoopEndsOwnSession ==
  [][(/\ loop.pc = "running"
      /\ loop'.pc = "returned"
      /\ state_path \in DOMAIN files
      /\ files[state_path].kind = "state"
      /\ ~SameSession(files[state_path], loop.state.val))
       => /\ state_path \in DOMAIN files'
          /\ files'[state_path] = files[state_path]
          /\ \A p \in EndedLogs(files') :
               files'[p].completed # files'[p].canceled]_vars

====
